---- MODULE Spec2Model ----
(***************************************************************************)
(* A model of bot.py: the hospital phone-directory bot.                    *)
(*                                                                         *)
(* Text is modelled as sequences of Unicode code points, so that the       *)
(* normaliser, the substring search and the sort of the department list    *)
(* work on the characters the code works on.  Time is counted in ticks of  *)
(* 1/TicksPerSec second; iso() drops the sub-second part, as the code's    *)
(* replace(microsecond=0) does.                                            *)
(***************************************************************************)
EXTENDS Integers, Sequences, FiniteSets, TLC

VARIABLES
    files,          \* the rows of the .xlsx files in DATA_DIR (the environment)
    display_rows,   \* bot.py:53
    departments,    \* bot.py:54
    phonebook,      \* bot.py:55
    users,          \* table users of stats.db, in insertion order
    events,         \* table events of stats.db, in id order
    now,            \* the wall clock, in ticks
    user_data,      \* context.user_data["last_search_indices"], per user
    upserts,        \* history: per user id, the timestamps of the first and last upsert_user call
    loaded,         \* history: the rows of the files as load_phonebook last read them
    menu,           \* the chat: one inline menu a user still has on screen, or none
    watching,       \* the chat: whether a menu the bot sends may stay on screen
    broadcast,      \* the loop of a confirmed broadcast: its position, ok, fail and sends so far
    nIn, nOut, nOut2, nStage   \* the input and results of normalize_arabic applied on its own

vars == <<files, display_rows, departments, phonebook, users, events, now,
          user_data, upserts, loaded, menu, watching, broadcast, nIn, nOut, nOut2, nStage>>

botVars == <<files, display_rows, departments, phonebook, users, events, now,
             user_data, upserts, loaded, menu, watching, broadcast>>

normVars == <<nIn, nOut, nOut2, nStage>>

botVarsButBroadcast == <<files, display_rows, departments, phonebook, users, events, now,
                         user_data, upserts, loaded, menu, watching>>

-----------------------------------------------------------------------------
(* Bounds *)

\* longest input string given to normalize_arabic on its own
MaxLen == 3

\* the characters input strings are made of: space, '-', 'a', U+01F0 (j with
\* caron), U+030C (combining caron), RLM, tatweel, fatha, alef with hamza,
\* alef, ta marbuta, qaf, alef maksura
Alphabet == {32, 45, 97, 496, 780, 8207, 1600, 1614, 1571, 1575, 1577, 1602, 1609}

RECURSIVE StringsUpTo(_)
StringsUpTo(n) ==
    IF n = 0 THEN {<<>>}
    ELSE LET shorter == StringsUpTo(n - 1)
         IN  shorter \cup {Append(s, c) : s \in {t \in shorter : Len(t) = n - 1}, c \in Alphabet}

-----------------------------------------------------------------------------
(* Text normalisation, bot.py:74-87 *)

\* str.strip() and the regex class \s: Unicode white space
IsSpace(c) == c \in {9, 10, 11, 12, 13, 28, 29, 30, 31, 32, 133, 160}

\* the marks removed by the three replace() calls of line 81: RLM, LRM, BOM
FormatMarks == {8207, 8206, 65279}

\* the class [ًٌٍَُِّْـ] of line 74: U+064B..U+0652 and the tatweel U+0640
ARABIC_DIAC == (1611..1618) \cup {1600}

\* the regex class \w on the characters used here: ASCII letters, digits
\* and underscore, and the letters U+01F0 and U+02BC
IsWordChar(c) ==
    \/ c \in 48..57
    \/ c \in 65..90
    \/ c \in 97..122
    \/ c = 95
    \/ c \in {496, 700}

\* the range ؀-ۿ of line 85
InArabicBlock(c) == c \in 1536..1791

RECURSIVE LStrip(_)
LStrip(s) == IF s # <<>> /\ IsSpace(Head(s)) THEN LStrip(Tail(s)) ELSE s

RECURSIVE RStrip(_)
RStrip(s) ==
    IF s # <<>> /\ IsSpace(s[Len(s)]) THEN RStrip(SubSeq(s, 1, Len(s) - 1)) ELSE s

\* str.strip()
Strip(s) == RStrip(LStrip(s))

\* ARABIC_DIAC.sub("", s)
strip_diacritics(s) == SelectSeq(s, LAMBDA c : c \notin ARABIC_DIAC)

\* the replace() calls of lines 83-84
FoldLetter(c) ==
    CASE c \in {1570, 1571, 1573} -> 1575
      [] c = 1609 -> 1610
      [] c = 1577 -> 1607
      [] OTHER -> c

\* re.sub(r"[^\w\s؀-ۿ]", " ", s), one character
PunctToSpace(c) ==
    IF IsWordChar(c) \/ IsSpace(c) \/ InArabicBlock(c) THEN c ELSE 32

\* re.sub(r"\s+", " ", s)
RECURSIVE CollapseSpaces(_)
CollapseSpaces(s) ==
    IF s = <<>> THEN <<>>
    ELSE IF IsSpace(Head(s))
         THEN <<32>> \o CollapseSpaces(LStrip(s))
         ELSE <<Head(s)>> \o CollapseSpaces(Tail(s))

\* str.upper(), one character: it may give more than one character back
\* (U+01F0 has no single upper-case form: it becomes 'J' + U+030C)
UpperChar(c) ==
    IF c \in 97..122 THEN <<c - 32>>
    ELSE IF c = 496 THEN <<74, 780>>
    ELSE <<c>>

RECURSIVE Upper(_)
Upper(s) == IF s = <<>> THEN <<>> ELSE UpperChar(Head(s)) \o Upper(Tail(s))

MapSeq(s, F(_)) == [i \in 1..Len(s) |-> F(s[i])]

normalize_arabic(s) ==
    LET s1 == Strip(SelectSeq(s, LAMBDA c : c \notin FormatMarks))
        s2 == strip_diacritics(s1)
        s3 == MapSeq(s2, FoldLetter)
        s4 == MapSeq(s3, PunctToSpace)
        s5 == Strip(CollapseSpaces(s4))
    IN  Upper(s5)

\* Python's `a in b` on strings
IsSubstring(a, b) ==
    \E i \in 0..(Len(b) - Len(a)) : SubSeq(b, i + 1, i + Len(a)) = a

-----------------------------------------------------------------------------
(* normalize_arabic on its own: an input is drawn, the function is applied *)
(* to it, and then to its own result.                                      *)

InitNorm ==
    /\ nIn \in StringsUpTo(MaxLen)
    /\ nOut = <<>>
    /\ nOut2 = <<>>
    /\ nStage = "input"

NormalizeOnce ==
    /\ nStage = "input"
    /\ nOut' = normalize_arabic(nIn)
    /\ nStage' = "once"
    /\ UNCHANGED <<nIn, nOut2>>

NormalizeTwice ==
    /\ nStage = "once"
    /\ nOut2' = normalize_arabic(nOut)
    /\ nStage' = "twice"
    /\ UNCHANGED <<nIn, nOut>>

-----------------------------------------------------------------------------
(* Program constants *)

\* user ids are compared for equality only; they are kept as strings
ADMIN_ID == "8099482759"

GRID_COLS == 3
PAGE_SIZE_ALL == 24
PAGE_SIZE_SRCH == 21

\* the four labels of MAIN_KB that handle_text compares the message with
BTN_LIST == <<128222, 32, 1571, 1585, 1602, 1575, 1605, 32, 1575, 1604, 1605, 1587, 1578, 1588, 1601, 1609>>
BTN_SEARCH == <<128269, 32, 1576, 1581, 1579, 32, 1576, 1575, 1604, 1575, 1587, 1605>>
BTN_ABOUT == <<8505, 65039, 32, 1593, 1606, 32, 1575, 1604, 1576, 1608, 1578>>
BTN_BACK == <<9664, 65039, 32, 1585, 1580, 1608, 1593, 32, 1604, 1604, 1602, 1575, 1574, 1605, 1577>>

\* the placeholder shown for an empty phone or a missing timestamp
Dash == "--"

-----------------------------------------------------------------------------
(* Bounds and inputs of the bot *)

\* the clock runs from 0 to MaxTime ticks
MaxTime == 3
TicksPerSec == 2
\* a scaled calendar: seconds per day, days per week, days per month
SecPerDay == 1
DaysPerWeek == 2
DaysPerMonth == 3
\* rows the events table may hold, and may hold when only departments are
\* looked up
MaxEvents == 2
MaxLookups == 3
\* ticks the clock may advance while one handler runs
MaxDrift == 1
\* largest LIMIT the top-N aggregations are evaluated with
MaxLimit == 3
\* largest of the small page sizes build_grid is evaluated with
MaxPageSize == 3

OtherUser == "1001"
Users == {ADMIN_ID, OtherUser}

\* department names: alef+qaf, hamza-alef+qaf (same normalised key), qaf+ta marbuta, "a"
N_AQ == <<1575, 1602>>
N_HAQ == <<1571, 1602>>
N_QT == <<1602, 1577>>
N_A == <<97>>

\* contents of DATA_DIR: one file of three rows; two files whose names
\* collide after normalisation, with one row of a blank name; no file
Sheet == << <<[dept |-> N_QT, phone |-> "111"], [dept |-> N_AQ, phone |-> "222"],
              [dept |-> N_A, phone |-> ""]>> >>
Sheets == << <<[dept |-> N_AQ, phone |-> "111"]>>,
             <<[dept |-> N_HAQ, phone |-> "222"], [dept |-> <<32>>, phone |-> "333"]>> >>
FileChoices == {<<>>, Sheet, Sheets}

\* a file with more names holding "B" than one page of a search menu shows
\* ("BA", "BB", "BC", ...), and three more that hold "C": "CX", "CY", "C"
BigSheet ==
    << [i \in 1..(PAGE_SIZE_SRCH + 1) |-> [dept |-> <<66, 64 + i>>, phone |-> "555"]]
       \o <<[dept |-> <<67, 88>>, phone |-> "666"], [dept |-> <<67, 89>>, phone |-> "777"],
            [dept |-> <<67>>, phone |-> "888"]>> >>

\* free-text messages: qaf; hamza-alef + fatha + qaf; "-"; " a"
Queries == {<<1602>>, <<1571, 1614, 1602>>, <<45>>, <<32, 97>>}

Texts == Queries \cup {BTN_LIST, BTN_SEARCH, BTN_ABOUT, BTN_BACK}

-----------------------------------------------------------------------------
(* Time, bot.py:90-96 *)

\* iso(dt): the timestamp without its sub-second part
iso(t) == t - (t % TicksPerSec)

-----------------------------------------------------------------------------
(* The phone book, bot.py:216-251 *)

\* Python's < on str: by code point, a proper prefix first
RECURSIVE StrLess(_, _)
StrLess(a, b) ==
    IF b = <<>> THEN FALSE
    ELSE IF a = <<>> THEN TRUE
    ELSE IF Head(a) # Head(b) THEN Head(a) < Head(b)
    ELSE StrLess(Tail(a), Tail(b))

\* the position a row takes in a stable sort by name: after every row whose
\* name is not greater
RECURSIVE InsertRow(_, _)
InsertRow(sorted, row) ==
    IF sorted = <<>> THEN <<row>>
    ELSE IF StrLess(row.dept, Head(sorted).dept) THEN <<row>> \o sorted
    ELSE <<Head(sorted)>> \o InsertRow(Tail(sorted), row)

\* display_rows.sort(key=lambda x: x[0])
RECURSIVE SortRows(_)
SortRows(rows) ==
    IF rows = <<>> THEN <<>>
    ELSE InsertRow(SortRows(SubSeq(rows, 1, Len(rows) - 1)), rows[Len(rows)])

\* the rows of all files in reading order, names stripped
RECURSIVE ReadRows(_)
ReadRows(fs) ==
    IF fs = <<>> THEN <<>>
    ELSE [i \in 1..Len(Head(fs)) |-> [dept |-> Strip(Head(fs)[i].dept), phone |-> Head(fs)[i].phone]]
         \o ReadRows(Tail(fs))

\* a phone book that keeps the first phone of a key
RECURSIVE FillPhonebook_keep(_, _)
FillPhonebook_keep(pb, rows) ==
    IF rows = <<>> THEN pb
    ELSE LET key == normalize_arabic(Head(rows).dept)
             pb1 == [k \in DOMAIN pb \cup {key} |->
                        IF k \in DOMAIN pb THEN pb[k] ELSE Head(rows).phone]
         IN  FillPhonebook_keep(pb1, Tail(rows))

\* phonebook[normalize_arabic(dept)] = phone, row after row
RECURSIVE FillPhonebook(_, _)
FillPhonebook(pb, rows) ==
    IF rows = <<>> THEN pb
    ELSE LET key == normalize_arabic(Head(rows).dept)
             pb1 == [k \in DOMAIN pb \cup {key} |-> IF k = key THEN Head(rows).phone ELSE pb[k]]
         IN  FillPhonebook(pb1, Tail(rows))

EmptyDict == [k \in {} |-> ""]

\* what load_phonebook leaves in memory and returns, given the files it reads
load_phonebook(fs) ==
    IF fs = <<>>
    THEN [display_rows |-> <<>>, departments |-> <<>>, phonebook |-> EmptyDict,
          total |-> 0, msg |-> "no_files"]
    ELSE LET kept == SelectSeq(ReadRows(fs), LAMBDA r : r.dept # <<>>)
             sorted == SortRows(kept)
         IN  [display_rows |-> sorted,
              departments |-> [i \in 1..Len(sorted) |-> sorted[i].dept],
              phonebook |-> FillPhonebook(EmptyDict, kept),
              total |-> Len(kept),
              msg |-> IF Len(kept) > 0 THEN "loaded" ELSE "nothing_loaded"]

\* phonebook.get(normalize_arabic(name), "")
PhoneOf(name) ==
    LET key == normalize_arabic(name)
    IN  IF key \in DOMAIN phonebook THEN phonebook[key] ELSE ""

\* num if num else '—'
ShowPhone(num) == IF num = "" THEN Dash ELSE num

-----------------------------------------------------------------------------
(* Grids, bot.py:291-319.  Indices are Python's: departments[idx] is the   *)
(* element idx + 1 of the sequence.                                        *)

CeilDiv(a, b) == (a + b - 1) \div b
Max(a, b) == IF a > b THEN a ELSE b
Min(a, b) == IF a < b THEN a ELSE b

\* the rows of department buttons: cols per row, the rest in a last row
RECURSIVE GridRows(_, _)
GridRows(buttons, cols) ==
    IF buttons = <<>> THEN <<>>
    ELSE IF Len(buttons) <= cols THEN <<buttons>>
    ELSE <<SubSeq(buttons, 1, cols)>> \o GridRows(SubSeq(buttons, cols + 1, Len(buttons)), cols)

\* a build_grid that counts only the full pages
build_grid_floor(indices, page, page_size, cols, mode) ==
    LET total == Len(indices)
        pages == Max(1, total \div page_size)
        pg == Max(0, Min(page, pages - 1))
        start == pg * page_size
        end == Min(pg * page_size + page_size, total)
        slice_idx == SubSeq(indices, start + 1, end)
        ctrl == (IF pg > 0 THEN <<[text |-> "prev", data |-> <<mode, pg - 1>>]>> ELSE <<>>)
                \o <<[text |-> "page", data |-> <<"noop">>]>>
                \o (IF pg < pages - 1 THEN <<[text |-> "next", data |-> <<mode, pg + 1>>]>> ELSE <<>>)
    IN  IF \E k \in 1..Len(slice_idx) : slice_idx[k] < 0 \/ slice_idx[k] >= Len(departments)
        THEN [error |-> "IndexError", rows |-> <<>>, page |-> pg, pages |-> pages,
              ctrl |-> <<>>, home |-> <<"home">>]
        ELSE [error |-> "",
              rows |-> GridRows([k \in 1..Len(slice_idx) |->
                                    [text |-> departments[slice_idx[k] + 1],
                                     data |-> <<"dept", slice_idx[k]>>]], cols),
              page |-> pg,
              pages |-> pages,
              ctrl |-> IF pages > 1 THEN ctrl ELSE <<>>,
              home |-> <<"home">>]

\* build_grid: the markup, or error "IndexError" when departments[idx] of
\* line 300 is outside the list
build_grid(indices, page, page_size, cols, mode) ==
    LET total == Len(indices)
        pages == Max(1, CeilDiv(total, page_size))
        pg == Max(0, Min(page, pages - 1))
        start == pg * page_size
        end == Min(pg * page_size + page_size, total)
        slice_idx == SubSeq(indices, start + 1, end)
        ctrl == (IF pg > 0 THEN <<[text |-> "prev", data |-> <<mode, pg - 1>>]>> ELSE <<>>)
                \o <<[text |-> "page", data |-> <<"noop">>]>>
                \o (IF pg < pages - 1 THEN <<[text |-> "next", data |-> <<mode, pg + 1>>]>> ELSE <<>>)
    IN  IF \E k \in 1..Len(slice_idx) : slice_idx[k] < 0 \/ slice_idx[k] >= Len(departments)
        THEN [error |-> "IndexError", rows |-> <<>>, page |-> pg, pages |-> pages,
              ctrl |-> <<>>, home |-> <<"home">>]
        ELSE [error |-> "",
              rows |-> GridRows([k \in 1..Len(slice_idx) |->
                                    [text |-> departments[slice_idx[k] + 1],
                                     data |-> <<"dept", slice_idx[k]>>]], cols),
              page |-> pg,
              pages |-> pages,
              ctrl |-> IF pages > 1 THEN ctrl ELSE <<>>,
              home |-> <<"home">>]

grid_all(page) ==
    build_grid([i \in 1..Len(departments) |-> i - 1], page, PAGE_SIZE_ALL, GRID_COLS, "allp")

\* a menu that leaves the first match out
grid_search_rest(matches, page) ==
    build_grid(Tail(matches), page, PAGE_SIZE_SRCH, GRID_COLS, "srchp")

grid_search(matches, page) ==
    build_grid(matches, page, PAGE_SIZE_SRCH, GRID_COLS, "srchp")

-----------------------------------------------------------------------------
(* Search, bot.py:322-329 *)

\* the loop over enumerate(departments), from index i on
RECURSIVE SearchFrom(_, _)
SearchFrom(qn, i) ==
    IF i >= Len(departments) THEN <<>>
    ELSE (IF IsSubstring(qn, normalize_arabic(departments[i + 1])) THEN <<i>> ELSE <<>>)
         \o SearchFrom(qn, i + 1)

\* a search that keeps only the names beginning with the query
search_indices_startswith(query) ==
    LET qn == normalize_arabic(query)
    IN  IF qn = <<>> THEN <<>>
        ELSE SelectSeq(SearchFrom(qn, 0),
                       LAMBDA i : SubSeq(normalize_arabic(departments[i + 1]), 1, Len(qn)) = qn)

\* a search without the early return of line 324
search_indices_unguarded(query) == SearchFrom(normalize_arabic(query), 0)

search_indices(query) ==
    LET qn == normalize_arabic(query)
    IN  IF qn = <<>> THEN <<>> ELSE SearchFrom(qn, 0)

-----------------------------------------------------------------------------
(* The store, bot.py:156-192 *)

\* the profile Telegram reports for a user
Username(uid) == IF uid = ADMIN_ID THEN "admin" ELSE ""
FullName(uid) == IF uid = ADMIN_ID THEN "" ELSE "Other"

\* an upsert whose UPDATE sets first_seen too
upsert_user_renew(tbl, uid, t) ==
    IF \E i \in 1..Len(tbl) : tbl[i].user_id = uid
    THEN [i \in 1..Len(tbl) |->
            IF tbl[i].user_id = uid
            THEN [tbl[i] EXCEPT !.first_seen = t, !.last_seen = t]
            ELSE tbl[i]]
    ELSE Append(tbl, [user_id |-> uid, first_seen |-> t, last_seen |-> t,
                      username |-> Username(uid), full_name |-> FullName(uid)])

\* upsert_user at time t
upsert_user(tbl, uid, t) ==
    IF \E i \in 1..Len(tbl) : tbl[i].user_id = uid
    THEN [i \in 1..Len(tbl) |->
            IF tbl[i].user_id = uid
            THEN [tbl[i] EXCEPT !.last_seen = t, !.username = Username(uid),
                                !.full_name = FullName(uid)]
            ELSE tbl[i]]
    ELSE Append(tbl, [user_id |-> uid, first_seen |-> t, last_seen |-> t,
                      username |-> Username(uid), full_name |-> FullName(uid)])

\* an insert that replaces the newest row
log_event_replace(tbl, t, event_type, user_id, chat_id, dept, query, extra) ==
    LET row == [ts |-> t, user_id |-> user_id, chat_id |-> chat_id,
                event_type |-> event_type, dept |-> dept, query |-> query,
                extra |-> extra]
    IN  IF tbl = <<>> THEN <<row>> ELSE [tbl EXCEPT ![Len(tbl)] = row]

\* log_event at time t
log_event(tbl, t, event_type, user_id, chat_id, dept, query, extra) ==
    Append(tbl, [ts |-> t, user_id |-> user_id, chat_id |-> chat_id,
                 event_type |-> event_type, dept |-> dept, query |-> query,
                 extra |-> extra])

\* a check every user passes
is_admin_anyone(uid) == TRUE

is_admin(uid) == uid = ADMIN_ID

-----------------------------------------------------------------------------
(* Reporting windows, bot.py:383-384 and 419-432 (the second definition of *)
(* period_bounds is the one in force).                                     *)

TicksPerDay == SecPerDay * TicksPerSec

\* now.replace(hour=0, minute=0, second=0, microsecond=0)
DayStart(t) == t - (t % TicksPerDay)

\* now.weekday(), and now.day - 1, in the scaled calendar
Weekday(t) == (t \div TicksPerDay) % DaysPerWeek
DayOfMonth0(t) == (t \div TicksPerDay) % DaysPerMonth

period_bounds(kind) ==
    CASE kind = "today" -> [start |-> DayStart(now), end |-> now, title |-> "today"]
      [] kind = "week" ->
            [start |-> DayStart(now) - Weekday(now) * TicksPerDay, end |-> now, title |-> "week"]
      [] kind = "month" ->
            [start |-> DayStart(now) - DayOfMonth0(now) * TicksPerDay, end |-> now, title |-> "month"]
      [] OTHER -> [start |-> now - 7 * TicksPerDay, end |-> now, title |-> "last7"]

\* the parameters of "WHERE ts >= ? AND ts <= ?"
_where_ts(start, end) == [lo |-> iso(start), hi |-> iso(end)]

\* a WHERE clause that leaves the start of the window out
WhereTs_after(ts, w) == ts > w.lo /\ ts <= w.hi

\* the WHERE clause itself, on one row's timestamp
WhereTs(ts, w) == ts >= w.lo /\ ts <= w.hi

-----------------------------------------------------------------------------
(* Aggregations, bot.py:386-417 and 434-883.  Each takes the tables it     *)
(* reads, so that it can be evaluated on earlier contents of a table too.  *)

SEARCH_TYPES == {"search_text", "dept_select", "search_hit"}
\* a filter that takes the presses only
DEPT_TYPES_presses == {"dept_select"}

DEPT_TYPES == {"dept_select", "search_hit"}

CountRows(tbl, P(_)) == Len(SelectSeq(tbl, P))
CountDistinctUsers(tbl, P(_)) == Cardinality({tbl[i].user_id : i \in {j \in DOMAIN tbl : P(tbl[j])}})

\* fmt_ts of a stored timestamp: the same instant, as display text
fmt_ts(ts) == [shown |-> ts]

get_total_users == Len(users)

RECURSIVE MaxTs(_)
MaxTs(tbl) ==
    IF Len(tbl) = 1 THEN tbl[1].ts
    ELSE Max(tbl[1].ts, MaxTs(Tail(tbl)))

\* SELECT MAX(ts) FROM events: NULL on an empty table, shown as the dash
get_last_activity_ts == IF events = <<>> THEN Dash ELSE fmt_ts(MaxTs(events))

count_new_users(start, end) ==
    CountRows(users, LAMBDA u : u.first_seen >= iso(start) /\ u.first_seen <= iso(end))

count_active_users(start, end) ==
    CountDistinctUsers(events, LAMBDA e : e.ts >= iso(start) /\ e.ts <= iso(end))

count_searches(start, end) ==
    CountRows(events, LAMBDA e : e.ts >= iso(start) /\ e.ts <= iso(end)
                                  /\ e.event_type \in SEARCH_TYPES)

count_not_found(start, end) ==
    CountRows(events, LAMBDA e : e.ts >= iso(start) /\ e.ts <= iso(end)
                                  /\ e.event_type = "not_found")

count_active_users_all == CountDistinctUsers(events, LAMBDA e : TRUE)
count_searches_all == CountRows(events, LAMBDA e : e.event_type \in SEARCH_TYPES)
count_not_found_all == CountRows(events, LAMBDA e : e.event_type = "not_found")

stats_summary(kind) ==
    IF kind = "all"
    THEN [title |-> "all",
          total_users |-> get_total_users,
          active_users |-> count_active_users_all,
          total_search |-> count_searches_all,
          total_text_search |-> CountRows(events, LAMBDA e : e.event_type = "search_text"),
          total_button_search |-> CountRows(events, LAMBDA e : e.event_type = "dept_select"),
          total_hit_search |-> CountRows(events, LAMBDA e : e.event_type = "search_hit"),
          not_found |-> count_not_found_all,
          last_activity |-> get_last_activity_ts]
    ELSE LET pb == period_bounds(kind)
             w == _where_ts(pb.start, pb.end)
         IN  [title |-> pb.title,
              start |-> pb.start,
              end |-> pb.end,
              total_users |-> get_total_users,
              new_users |-> CountRows(users, LAMBDA u : u.first_seen >= iso(pb.start)
                                                        /\ u.first_seen <= iso(pb.end)),
              active_users |-> CountDistinctUsers(events, LAMBDA e : WhereTs(e.ts, w)),
              total_search |-> CountRows(events, LAMBDA e : WhereTs(e.ts, w)
                                                   /\ e.event_type \in SEARCH_TYPES),
              total_text_search |-> CountRows(events, LAMBDA e : WhereTs(e.ts, w)
                                                   /\ e.event_type = "search_text"),
              total_button_search |-> CountRows(events, LAMBDA e : WhereTs(e.ts, w)
                                                   /\ e.event_type = "dept_select"),
              total_hit_search |-> CountRows(events, LAMBDA e : WhereTs(e.ts, w)
                                                   /\ e.event_type = "search_hit"),
              not_found |-> CountRows(events, LAMBDA e : WhereTs(e.ts, w)
                                                   /\ e.event_type = "not_found"),
              last_activity |-> get_last_activity_ts]

\* ORDER BY key DESC: SQL leaves the order of equal keys open, so every
\* order of the rows with non-increasing keys is a possible result
Perms(S) ==
    {f \in [1..Cardinality(S) -> S] : \A i, j \in 1..Cardinality(S) : i # j => f[i] # f[j]}

OrderByDesc(S, Key(_)) ==
    {f \in Perms(S) : \A i \in 1..(Len(f) - 1) : Key(f[i]) >= Key(f[i + 1])}

\* LIMIT n (a negative n is no limit in SQLite)
Limit(s, n) == IF n < 0 THEN s ELSE SubSeq(s, 1, Min(n, Len(s)))

\* the same query with ORDER BY c ASC
TopDeptsOf_asc(evts, limit) ==
    LET rows == SelectSeq(evts, LAMBDA e : e.event_type \in DEPT_TYPES /\ e.dept # <<>>)
        groups == {[dept |-> d, c |-> CountRows(rows, LAMBDA e : e.dept = d)] :
                       d \in {rows[i].dept : i \in DOMAIN rows}}
    IN  {Limit(o, limit) : o \in OrderByDesc(groups, LAMBDA g : 0 - g.c)}

\* SELECT dept, COUNT(*) AS c FROM events WHERE event_type IN
\* ('dept_select','search_hit') AND dept <> '' GROUP BY dept ORDER BY c DESC LIMIT ?
TopDeptsOf(evts, limit) ==
    LET rows == SelectSeq(evts, LAMBDA e : e.event_type \in DEPT_TYPES /\ e.dept # <<>>)
        groups == {[dept |-> d, c |-> CountRows(rows, LAMBDA e : e.dept = d)] :
                       d \in {rows[i].dept : i \in DOMAIN rows}}
    IN  {Limit(o, limit) : o \in OrderByDesc(groups, LAMBDA g : g.c)}

\* the possible results of get_top_depts(limit)
get_top_depts(limit) ==
    {SelectSeq(r, LAMBDA g : g.dept # <<>>) : r \in TopDeptsOf(events, limit)}

\* the report without its no-data text
top10_departments_alltime_bare == TopDeptsOf(events, 10)

\* the possible texts of the top-10 report: its lines, or the no-data text
top10_departments_alltime ==
    {IF r = <<>> THEN <<"no_data">> ELSE r : r \in TopDeptsOf(events, 10)}

\* SELECT user_id, COUNT(*) AS c FROM events WHERE event_type IN (...)
\* GROUP BY user_id ORDER BY c DESC LIMIT ?
TopUsersOf(evts, limit) ==
    LET rows == SelectSeq(evts, LAMBDA e : e.event_type \in SEARCH_TYPES)
        groups == {[user_id |-> u, c |-> CountRows(rows, LAMBDA e : e.user_id = u)] :
                       u \in {rows[i].user_id : i \in DOMAIN rows}}
    IN  {Limit(o, limit) : o \in OrderByDesc(groups, LAMBDA g : g.c)}

\* SELECT full_name, username, last_seen FROM users WHERE user_id=?
UserRow(uid) ==
    LET hits == SelectSeq(users, LAMBDA u : u.user_id = uid)
    IN  IF hits = <<>> THEN <<>> ELSE <<hits[1]>>

\* one line of the top-users result: (uid, name, handle, last_seen, c)
TopUserLine(g, detailed) ==
    LET urow == UserRow(g.user_id)
        full_name == IF urow # <<>> THEN urow[1].full_name ELSE ""
        username == IF urow # <<>> THEN urow[1].username ELSE ""
    IN  [user_id |-> g.user_id,
         name |-> IF full_name # "" THEN full_name
                  ELSE IF detailed /\ username # "" THEN "@" \o username
                  ELSE g.user_id,
         handle |-> IF username # "" THEN "@" \o username ELSE Dash,
         last_seen |-> IF urow # <<>> THEN fmt_ts(urow[1].last_seen) ELSE Dash,
         c |-> g.c]

get_top_users(limit) ==
    {[i \in 1..Len(r) |-> TopUserLine(r[i], FALSE)] : r \in TopUsersOf(events, limit)}

top15_users_alltime_detailed ==
    {IF r = <<>> THEN <<"no_data">> ELSE [i \in 1..Len(r) |-> TopUserLine(r[i], TRUE)] :
        r \in TopUsersOf(events, 15)}

\* SELECT ... FROM users ORDER BY last_seen DESC LIMIT ?
RecentUsersOf(tbl, limit) ==
    {Limit(o, limit) : o \in OrderByDesc({tbl[i] : i \in DOMAIN tbl}, LAMBDA u : u.last_seen)}

RecentUserLine(u) ==
    [user_id |-> u.user_id,
     name |-> IF u.full_name # "" THEN u.full_name ELSE u.user_id,
     handle |-> IF u.username # "" THEN "@" \o u.username ELSE Dash,
     first_seen |-> fmt_ts(u.first_seen),
     last_seen |-> fmt_ts(u.last_seen)]

get_recent_users(limit) ==
    {[i \in 1..Len(r) |-> RecentUserLine(r[i])] : r \in RecentUsersOf(users, limit)}

recent25_users ==
    {IF r = <<>> THEN <<"no_data">> ELSE [i \in 1..Len(r) |-> RecentUserLine(r[i])] :
        r \in RecentUsersOf(users, 25)}

\* the possible contents of a report: build_csv and build_xlsx write the
\* same sections; a section the scope leaves out is the empty sequence
ReportsOf(scope) ==
    LET pb == period_bounds("today")
        today == IF scope \in {"today", "full"}
                 THEN <<[from |-> fmt_ts(iso(pb.start)), to |-> fmt_ts(iso(pb.end)),
                         new_users |-> count_new_users(pb.start, pb.end),
                         active_users |-> count_active_users(pb.start, pb.end),
                         searches |-> count_searches(pb.start, pb.end),
                         not_found |-> count_not_found(pb.start, pb.end)]>>
                 ELSE <<>>
        alltime == IF scope \in {"all", "full"}
                   THEN <<[active_users |-> count_active_users_all,
                           searches |-> count_searches_all,
                           not_found |-> count_not_found_all]>>
                   ELSE <<>>
    IN  IF scope \in {"usage", "full"}
        THEN {[total_users |-> get_total_users, last_activity |-> get_last_activity_ts,
               today |-> today, alltime |-> alltime,
               usage |-> <<[top_depts |-> d, top_users |-> u, recent |-> r]>>] :
                  d \in get_top_depts(10), u \in get_top_users(15), r \in get_recent_users(25)}
        ELSE {[total_users |-> get_total_users, last_activity |-> get_last_activity_ts,
               today |-> today, alltime |-> alltime, usage |-> <<>>]}

\* (bytes, filename, mime): the file's format and the possible contents
export_report_bytes(fmt, scope) ==
    {[fmt |-> fmt, scope |-> scope, report |-> r] : r \in ReportsOf(scope)}

-----------------------------------------------------------------------------
(* Running a handler.  A handler's writes to the store are separate        *)
(* commits, each stamped with the clock's value when it is made; the       *)
(* process may die between two of them, and is then started again: the     *)
(* store keeps what was committed, the memory is loaded anew.  What a      *)
(* handler sends is given beside it, as the set of reply sequences it can  *)
(* send from the state it runs in.                                         *)

Upsert(uid) == [op |-> "upsert_user", uid |-> uid]

Log(event_type, uid, dept, query, extra) ==
    [op |-> "log_event", event_type |-> event_type, user_id |-> uid, chat_id |-> uid,
     dept |-> dept, query |-> query, extra |-> extra]

\* one commit at time t; the history of upsert_user calls is kept beside the tables
Commit(db, op, t) ==
    IF op.op = "upsert_user"
    THEN [db EXCEPT !.users = upsert_user(@, op.uid, t),
                    !.upserts[op.uid] = IF @ = <<>> THEN <<t, t>> ELSE <<@[1], t>>]
    ELSE [db EXCEPT !.events = log_event(@, t, op.event_type, op.user_id, op.chat_id,
                                         op.dept, op.query, op.extra)]

\* the store after the first k commits of ops, the i-th made offs[i] ticks from now
RECURSIVE RunOps(_, _, _, _)
RunOps(db, ops, offs, k) ==
    IF k = 0 THEN db
    ELSE Commit(RunOps(db, ops, offs, k - 1), ops[k], iso(now + offs[k]))

\* how far the clock has moved at each commit
Offsets(n) ==
    {f \in [1..n -> 0..MaxDrift] : \A i \in 1..(n - 1) : f[i] <= f[i + 1]}

Memory == [display_rows |-> display_rows, departments |-> departments,
           phonebook |-> phonebook, user_data |-> user_data, loaded |-> loaded]

NoSearches == [u \in Users |-> <<>>]

\* the memory of a process just started (__main__ calls load_phonebook)
FreshMemory ==
    LET l == load_phonebook(files)
    IN  [display_rows |-> l.display_rows, departments |-> l.departments,
         phonebook |-> l.phonebook, user_data |-> NoSearches, loaded |-> files]

SetMemory(mem) ==
    /\ display_rows' = mem.display_rows
    /\ departments' = mem.departments
    /\ phonebook' = mem.phonebook
    /\ user_data' = mem.user_data
    /\ loaded' = mem.loaded

SetStore(db) ==
    /\ users' = db.users
    /\ events' = db.events
    /\ upserts' = db.upserts

\* a handler that commits ops, leaves mem in memory and sends one of menus
\* (which the user may keep on screen), or dies after some of its commits
Handle(ops, mem, menus) ==
    \E offs \in Offsets(Len(ops)) :
        LET db == [users |-> users, events |-> events, upserts |-> upserts]
            last == IF ops = <<>> THEN 0 ELSE offs[Len(ops)]
        IN  /\ now + last <= MaxTime
            /\ \/ /\ SetStore(RunOps(db, ops, offs, Len(ops)))
                  /\ now' = now + last
                  /\ SetMemory(mem)
                  /\ menu' \in IF watching THEN {menu} \cup {<<m>> : m \in menus} ELSE {menu}
               \/ \E k \in 1..(Len(ops) - 1) :
                     /\ SetStore(RunOps(db, ops, offs, k))
                     /\ now' = now + offs[k]
                     /\ SetMemory(FreshMemory)
                     /\ menu' = menu
            /\ UNCHANGED <<files, watching, broadcast, normVars>>

-----------------------------------------------------------------------------
(* Command handlers, bot.py:893-915 *)

start(uid) == Handle(<<Upsert(uid), Log("start", uid, <<>>, <<>>, <<>>)>>, Memory, {})

start_replies(uid) == {<<[kind |-> "intro", markup |-> "MAIN_KB"]>>}

about_cmd(uid) == Handle(<<Upsert(uid), Log("about", uid, <<>>, <<>>, <<>>)>>, Memory, {})

about_cmd_replies(uid) == {<<[kind |-> "about", markup |-> "MAIN_KB"]>>}

\* a /reload whose load_phonebook does not empty the phone book first
reload_cmd_merge(uid) ==
    LET l == load_phonebook(files)
        kept == SelectSeq(ReadRows(files), LAMBDA r : r.dept # <<>>)
    IN  Handle(<<Upsert(uid), Log("reload", uid, <<>>, <<>>, <<>>)>>,
               [display_rows |-> l.display_rows, departments |-> l.departments,
                phonebook |-> FillPhonebook(phonebook, kept), user_data |-> user_data,
                loaded |-> files], {})

reload_cmd(uid) ==
    LET l == load_phonebook(files)
    IN  Handle(<<Upsert(uid), Log("reload", uid, <<>>, <<>>, <<>>)>>,
               [display_rows |-> l.display_rows, departments |-> l.departments,
                phonebook |-> l.phonebook, user_data |-> user_data,
                loaded |-> files], {})

reload_cmd_replies(uid) ==
    LET l == load_phonebook(files)
    IN  {<<[kind |-> "reload", msg |-> l.msg, total |-> l.total, markup |-> "MAIN_KB"]>>}

admin_cmd(uid) == Handle(<<Upsert(uid), Log("admin_open", uid, <<>>, <<>>, <<>>)>>, Memory, {})

admin_cmd_replies(uid) ==
    IF ~is_admin(uid)
    THEN {<<[kind |-> "unauthorised", markup |-> "MAIN_KB"]>>}
    ELSE {<<[kind |-> "admin_menu", markup |-> "admin_menu"]>>}

-----------------------------------------------------------------------------
(* Text messages, bot.py:917-966 *)

\* the reply of list_depts(update, context, page)
list_depts(page) ==
    IF departments = <<>>
    THEN <<[kind |-> "no_records", markup |-> "MAIN_KB"]>>
    ELSE <<[kind |-> "list", markup |-> grid_all(page)]>>

\* a handle_text that does not record the result of a search
handle_text_ops_silent(uid, text) ==
    LET txt == Strip(text)
        matches == search_indices(txt)
    IN  CASE txt = BTN_LIST -> <<Upsert(uid), Log("open_list", uid, <<>>, <<>>, <<>>)>>
          [] txt = BTN_SEARCH -> <<Upsert(uid), Log("prompt_search", uid, <<>>, <<>>, <<>>)>>
          [] txt = BTN_ABOUT -> <<Upsert(uid), Log("about_btn", uid, <<>>, <<>>, <<>>)>>
          [] txt = BTN_BACK -> <<Upsert(uid), Log("back_home", uid, <<>>, <<>>, <<>>)>>
          [] OTHER -> <<Upsert(uid),
                        Log("search_text", uid, <<>>, txt, <<"matches", Len(matches)>>)>>

\* the commits of handle_text, in order
handle_text_ops(uid, text) ==
    LET txt == Strip(text)
        matches == search_indices(txt)
        searched == Log("search_text", uid, <<>>, txt, <<"matches", Len(matches)>>)
    IN  CASE txt = BTN_LIST -> <<Upsert(uid), Log("open_list", uid, <<>>, <<>>, <<>>)>>
          [] txt = BTN_SEARCH -> <<Upsert(uid), Log("prompt_search", uid, <<>>, <<>>, <<>>)>>
          [] txt = BTN_ABOUT -> <<Upsert(uid), Log("about_btn", uid, <<>>, <<>>, <<>>)>>
          [] txt = BTN_BACK -> <<Upsert(uid), Log("back_home", uid, <<>>, <<>>, <<>>)>>
          [] OTHER ->
               IF matches = <<>>
               THEN <<Upsert(uid), searched, Log("not_found", uid, <<>>, txt, <<>>)>>
               ELSE IF Len(matches) = 1
               THEN <<Upsert(uid), searched,
                      Log("search_hit", uid, departments[matches[1] + 1], txt, <<>>)>>
               ELSE <<Upsert(uid), searched>>

\* the memory handle_text leaves: line 965 keeps the matches of a search
\* that found several
handle_text_memory(uid, text) ==
    LET txt == Strip(text)
        matches == search_indices(txt)
    IN  IF txt \notin {BTN_LIST, BTN_SEARCH, BTN_ABOUT, BTN_BACK} /\ Len(matches) > 1
        THEN [Memory EXCEPT !.user_data[uid] = matches]
        ELSE Memory

\* the inline menus handle_text sends: the list of line 918, the search
\* menu of line 966; matches is the list of indices the menu was built from
handle_text_menus(uid, text) ==
    LET txt == Strip(text)
        matches == search_indices(txt)
        everyone == [i \in 1..Len(departments) |-> i - 1]
    IN  CASE txt = BTN_LIST ->
               IF departments = <<>> THEN {}
               ELSE {[to |-> uid, markup |-> grid_all(0), matches |-> everyone]}
          [] txt \in {BTN_SEARCH, BTN_ABOUT, BTN_BACK} -> {}
          [] OTHER ->
               IF Len(matches) > 1
               THEN {[to |-> uid, markup |-> grid_search(matches, 0), matches |-> matches]}
               ELSE {}

handle_text(uid, text) ==
    Handle(handle_text_ops(uid, text), handle_text_memory(uid, text),
           handle_text_menus(uid, text))

handle_text_replies(uid, text) ==
    LET txt == Strip(text)
        matches == search_indices(txt)
        name == departments[matches[1] + 1]
        num == PhoneOf(name)
    IN  CASE txt = BTN_LIST -> {list_depts(0)}
          [] txt = BTN_SEARCH -> {<<[kind |-> "prompt_search", markup |-> "MAIN_KB"]>>}
          [] txt = BTN_ABOUT -> {<<[kind |-> "about", markup |-> "MAIN_KB"]>>}
          [] txt = BTN_BACK -> {<<[kind |-> "intro", markup |-> "MAIN_KB"]>>}
          [] OTHER ->
               IF matches = <<>>
               THEN {<<[kind |-> "not_found", markup |-> "MAIN_KB"]>>}
               ELSE IF Len(matches) = 1
               THEN {<<[kind |-> "answer", name |-> name, phone |-> ShowPhone(num),
                        markup |-> "MAIN_KB"]>>}
               ELSE {<<[kind |-> "menu", markup |-> grid_search(matches, 0)]>>}

-----------------------------------------------------------------------------
(* Button presses, bot.py:968-1150.  Callback data "a:b" is kept as the    *)
(* fields <<a, b>> that split(":") gives.  Telegram sends every callback   *)
(* query with the user who pressed.                                        *)

ADMIN_PREFIXES == {"stats", "adm", "export", "broadcast", "admin"}

\* what one pass of the broadcast loop can meet: the send works; it is
\* rate-limited and the second send works or fails; it fails
SendOutcomes == {"ok", "retry_ok", "retry_fail", "fail"}

\* the loop of lines 1081-1094 over user_ids, given each send's outcome
RECURSIVE BroadcastLoop(_, _, _)
BroadcastLoop(user_ids, outcome, acc) ==
    IF user_ids = <<>> THEN acc
    ELSE LET i == Len(acc.sends) + 1
             o == outcome[i]
         IN  BroadcastLoop(Tail(user_ids), outcome,
                 [sends |-> Append(acc.sends,
                                   [to |-> Head(user_ids),
                                    attempts |-> IF o \in {"retry_ok", "retry_fail"} THEN 2 ELSE 1,
                                    delivered |-> o \in {"ok", "retry_ok"}]),
                  ok |-> acc.ok + (IF o \in {"ok", "retry_ok"} THEN 1 ELSE 0),
                  fail |-> acc.fail + (IF o \in {"retry_fail", "fail"} THEN 1 ELSE 0)])

\* the possible runs of a confirmed broadcast
Broadcasts ==
    LET user_ids == [i \in 1..Len(users) |-> users[i].user_id]
    IN  {BroadcastLoop(user_ids, f, [sends |-> <<>>, ok |-> 0, fail |-> 0]) :
            f \in [1..Len(users) -> SendOutcomes]}

AdminMenuReply == [kind |-> "admin_menu", markup |-> "admin_menu"]

\* the replies of the admin part, lines 984-1102, for the administrator;
\* data no branch takes falls through to the final q.answer()
AdminReplies(data) ==
    CASE data = <<"admin", "home">> -> {<<AdminMenuReply>>}
      [] data[1] = "stats" ->
            LET kind == IF data[2] \in {"today", "week", "month", "all"} THEN data[2] ELSE "all"
            IN  {<<[kind |-> "stats", text |-> stats_summary(kind), markup |-> "admin_menu"]>>}
      [] data = <<"adm", "top10_depts">> ->
            {<<[kind |-> "top_depts", text |-> t, markup |-> "admin_menu"]>> :
                t \in top10_departments_alltime}
      [] data = <<"adm", "user_count">> ->
            {<<[kind |-> "user_count", total |-> get_total_users,
                last_activity |-> get_last_activity_ts, markup |-> "admin_menu"]>>}
      [] data = <<"adm", "top15_users_all">> ->
            {<<[kind |-> "top_users", text |-> t, markup |-> "admin_menu"]>> :
                t \in top15_users_alltime_detailed}
      [] data = <<"adm", "recent25">> ->
            {<<[kind |-> "recent_users", text |-> t, markup |-> "admin_menu"]>> :
                t \in recent25_users}
      [] data = <<"adm", "last_activity">> ->
            {<<[kind |-> "last_activity", last_activity |-> get_last_activity_ts,
                markup |-> "admin_menu"]>>}
      [] data = <<"export", "menu">> -> {<<[kind |-> "export_menu", markup |-> "export_menu"]>>}
      [] data[1] = "export" ->
            IF Len(data) = 3 /\ data[2] \in {"csv", "xlsx"}
               /\ data[3] \in {"today", "all", "usage", "full"}
            THEN {<<[kind |-> "document", file |-> f]>> : f \in export_report_bytes(data[2], data[3])}
            ELSE {<<[kind |-> "export_invalid", markup |-> "export_menu"]>>}
      [] data = <<"broadcast", "menu">> ->
            {<<[kind |-> "broadcast_preview", markup |-> "broadcast_menu"]>>}
      [] data = <<"broadcast", "cancel">> ->
            {<<[kind |-> "broadcast_cancelled", markup |-> "admin_menu"]>>}
      [] data = <<"broadcast", "confirm">> ->
            {<<[kind |-> "broadcast_done", sends |-> b.sends, ok |-> b.ok, fail |-> b.fail],
               AdminMenuReply>> : b \in Broadcasts}
      [] OTHER -> {<<>>}

\* a press that logs the event and skips upsert_user
on_callback_ops_unseen(sender, data) ==
    IF data[1] = "dept" /\ 0 <= data[2] /\ data[2] < Len(departments)
    THEN <<Log("dept_select", sender, departments[data[2] + 1], <<>>, <<>>)>>
    ELSE <<>>

\* the commits of on_callback: a press on a department of the list
on_callback_ops(sender, data) ==
    IF data[1] = "dept" /\ 0 <= data[2] /\ data[2] < Len(departments)
    THEN <<Upsert(sender), Log("dept_select", sender, departments[data[2] + 1], <<>>, <<>>)>>
    ELSE <<>>

\* the inline menus on_callback leaves on screen: the pages that lines
\* 1122 and 1129 edit into the message
on_callback_menus(sender, data) ==
    LET everyone == [i \in 1..Len(departments) |-> i - 1]
    IN  CASE data[1] = "allp" ->
               {[to |-> sender, markup |-> grid_all(data[2]), matches |-> everyone]}
          [] data[1] = "srchp" ->
               IF grid_search(user_data[sender], data[2]).error # "" THEN {}
               ELSE {[to |-> sender, markup |-> grid_search(user_data[sender], data[2]),
                      matches |-> user_data[sender]]}
          [] OTHER -> {}

on_callback(sender, data) ==
    Handle(on_callback_ops(sender, data), Memory, on_callback_menus(sender, data))

on_callback_replies(sender, data) ==
    IF data[1] \in ADMIN_PREFIXES
    THEN IF ~(sender = ADMIN_ID)
         THEN {<<[kind |-> "unauthorised", markup |-> "MAIN_KB"]>>}
         ELSE AdminReplies(data)
    ELSE CASE data[1] = "dept" ->
                LET idx == data[2]
                    name == departments[idx + 1]
                    num == PhoneOf(name)
                IN  IF 0 <= idx /\ idx < Len(departments)
                    THEN {<<[kind |-> "alert", name |-> name, phone |-> ShowPhone(num)],
                            [kind |-> "dept", name |-> name, phone |-> ShowPhone(num)]>>}
                    ELSE {<<[kind |-> "alert_invalid"]>>}
           [] data[1] = "allp" -> {<<[kind |-> "edit_list", markup |-> grid_all(data[2])]>>}
           [] data[1] = "srchp" ->
                \* a stale index raises in build_grid and ends in the except branch
                IF grid_search(user_data[sender], data[2]).error # ""
                THEN {<<[kind |-> "alert_error"]>>}
                ELSE {<<[kind |-> "edit_menu",
                         markup |-> grid_search(user_data[sender], data[2])]>>}
           [] data = <<"home">> ->
                {<<[kind |-> "edit_intro"], [kind |-> "home", markup |-> "MAIN_KB"]>>}
           [] OTHER -> {<<>>}

\* the callback data pressed: the buttons of the menus, and data no menu holds
AdminData ==
    {<<"stats", k>> : k \in {"today", "week", "month", "all", "7"}}
    \cup {<<"adm", k>> : k \in {"top10_depts", "user_count", "top15_users_all", "recent25",
                                 "last_activity", "other"}}
    \cup {<<"export", "menu">>, <<"export", "csv", "today">>, <<"export", "xlsx", "full">>,
          <<"export", "pdf", "all">>}
    \cup {<<"broadcast", k>> : k \in {"menu", "cancel", "confirm"}}
    \cup {<<"admin", "home">>}

PlainData ==
    {<<"dept", i>> : i \in (0 - 1)..3}
    \cup {<<"allp", p>> : p \in (0 - 1)..1}
    \cup {<<"srchp", p>> : p \in (0 - 1)..1}
    \cup {<<"home">>, <<"noop">>}

-----------------------------------------------------------------------------
(* The loop of a confirmed broadcast, step by step, bot.py:1070-1102.  The
   application handles one update at a time (ApplicationBuilder().build()
   without concurrent_updates, bot.py:1172), so the loop's awaits are the
   only places where time passes before the handler returns. *)

\* no broadcast has been confirmed since the process started
NoBroadcast ==
    [pc |-> "idle", user_ids |-> <<>>, pos |-> 1, ok |-> 0, fail |-> 0,
     tries |-> <<>>, reply |-> <<>>]

\* the loop of lines 1081-1094 is under way
Broadcasting == broadcast.pc \in {"send", "resend"}

\* what one call of context.bot.send_message does: it returns, or raises
\* RetryAfter, or raises another exception
SendResults == {"ok", "RetryAfter", "error"}

\* the admin presses broadcast:confirm: SELECT user_id FROM users; ok = fail = 0
broadcast_confirm(sender) ==
    /\ sender = ADMIN_ID
    /\ ~Broadcasting
    /\ broadcast' = [pc |-> "send",
                     user_ids |-> [i \in 1..Len(users) |-> users[i].user_id],
                     pos |-> 1, ok |-> 0, fail |-> 0, tries |-> <<>>, reply |-> <<>>]
    /\ UNCHANGED <<botVarsButBroadcast, normVars>>

\* the first send_message to the next uid of the for loop
broadcast_send(result) ==
    /\ broadcast.pc = "send"
    /\ broadcast.pos <= Len(broadcast.user_ids)
    /\ LET try == [to |-> broadcast.user_ids[broadcast.pos], result |-> result]
           tried == [broadcast EXCEPT !.tries = Append(@, try)]
       IN  broadcast' =
               CASE result = "ok" -> [tried EXCEPT !.ok = @ + 1, !.pos = @ + 1]
                 [] result = "RetryAfter" -> [tried EXCEPT !.pc = "resend"]
                 [] OTHER -> [tried EXCEPT !.fail = @ + 1, !.pos = @ + 1]
    /\ UNCHANGED <<botVarsButBroadcast, normVars>>

\* a resend that lets a second failure go uncounted
broadcast_resend_uncounted(result) ==
    /\ broadcast.pc = "resend"
    /\ LET try == [to |-> broadcast.user_ids[broadcast.pos], result |-> result]
           tried == [broadcast EXCEPT !.tries = Append(@, try), !.pc = "send"]
       IN  broadcast' =
               IF result = "ok"
               THEN [tried EXCEPT !.ok = @ + 1, !.pos = @ + 1]
               ELSE [tried EXCEPT !.pos = @ + 1]
    /\ UNCHANGED <<botVarsButBroadcast, normVars>>

\* after sleeping retry_after + 1 seconds, the second send_message to the same uid
broadcast_resend(result) ==
    /\ broadcast.pc = "resend"
    /\ LET try == [to |-> broadcast.user_ids[broadcast.pos], result |-> result]
           tried == [broadcast EXCEPT !.tries = Append(@, try), !.pc = "send"]
       IN  broadcast' =
               IF result = "ok"
               THEN [tried EXCEPT !.ok = @ + 1, !.pos = @ + 1]
               ELSE [tried EXCEPT !.fail = @ + 1, !.pos = @ + 1]
    /\ UNCHANGED <<botVarsButBroadcast, normVars>>

\* the for loop is exhausted: the counts are sent to the admin
broadcast_reply ==
    /\ broadcast.pc = "send"
    /\ broadcast.pos > Len(broadcast.user_ids)
    /\ broadcast' = [broadcast EXCEPT !.pc = "done",
                                      !.reply = <<[ok |-> broadcast.ok, fail |-> broadcast.fail]>>]
    /\ UNCHANGED <<botVarsButBroadcast, normVars>>

-----------------------------------------------------------------------------
(* The environment *)

\* time passes
Tick ==
    /\ now < MaxTime
    /\ now' = now + 1
    /\ UNCHANGED <<files, display_rows, departments, phonebook, users, events,
                   user_data, upserts, loaded, menu, watching, broadcast, normVars>>

\* the spreadsheets in DATA_DIR are replaced
EditFiles ==
    /\ files' \in FileChoices \ {files}
    /\ UNCHANGED <<display_rows, departments, phonebook, users, events, now,
                   user_data, upserts, loaded, menu, watching, broadcast, normVars>>

\* the process is stopped and started again
Restart ==
    /\ SetMemory(FreshMemory)
    /\ broadcast' = NoBroadcast
    /\ UNCHANGED <<files, users, events, now, upserts, menu, watching, normVars>>

-----------------------------------------------------------------------------
(* Specifications *)

InitBot ==
    /\ files \in FileChoices
    /\ display_rows = load_phonebook(files).display_rows
    /\ departments = load_phonebook(files).departments
    /\ phonebook = load_phonebook(files).phonebook
    /\ users = <<>>
    /\ events = <<>>
    /\ now = 0
    /\ user_data = NoSearches
    /\ upserts = [u \in Users |-> <<>>]
    /\ loaded = files
    /\ menu = <<>>
    /\ watching = FALSE
    /\ broadcast = NoBroadcast

Init ==
    /\ InitBot
    /\ nIn = <<>>
    /\ nOut = <<>>
    /\ nOut2 = <<>>
    /\ nStage = "idle"

\* the events table has room for a row below n; the step leaves at most n rows
Room(n) == Len(events) < n
Fits(n) == Len(events') <= n

Next ==
    \/ Tick
    \/ EditFiles
    \/ Restart
    \/ \E u \in Users : Room(MaxEvents) /\ start(u) /\ Fits(MaxEvents)
    \/ \E u \in Users : Room(MaxEvents) /\ about_cmd(u) /\ Fits(MaxEvents)
    \/ \E u \in Users : Room(MaxEvents) /\ reload_cmd(u) /\ Fits(MaxEvents)
    \/ \E u \in Users : Room(MaxEvents) /\ admin_cmd(u) /\ Fits(MaxEvents)
    \/ \E u \in Users, text \in Texts : Room(MaxEvents) /\ handle_text(u, text) /\ Fits(MaxEvents)
    \/ \E s \in Users, data \in AdminData \cup PlainData :
          on_callback(s, data) /\ Fits(MaxEvents)

Spec == Init /\ [][Next]_vars

\* The store: commands, searches and presses of both users while time
\* passes, over one spreadsheet
StoreTexts == {<<1602>>, <<45>>, <<32, 97>>}
StoreData == {<<"dept", i>> : i \in 0..1}
             \cup {<<"stats", "today">>, <<"export", "csv", "today">>, <<"broadcast", "confirm">>}

InitStore == InitBot /\ files = Sheet /\ nIn = <<>> /\ nOut = <<>> /\ nOut2 = <<>>
             /\ nStage = "idle"

NextStore ==
    \/ Tick
    \/ \E u \in Users : Room(MaxEvents) /\ start(u) /\ Fits(MaxEvents)
    \/ \E u \in Users : Room(MaxEvents) /\ admin_cmd(u) /\ Fits(MaxEvents)
    \/ \E u \in Users, text \in StoreTexts : Room(MaxEvents) /\ handle_text(u, text) /\ Fits(MaxEvents)
    \/ \E s \in Users, data \in StoreData : on_callback(s, data) /\ Fits(MaxEvents)

SpecStore == InitStore /\ [][NextStore]_vars

\* The department counts: presses on two departments of the list and
\* searches that find one of them, by both users while time passes
LookupTexts == {<<32, 97>>}
LookupData == {<<"dept", i>> : i \in 0..1} \cup {<<"adm", "top10_depts">>}

NextLookups ==
    \/ Tick
    \/ \E u \in Users, text \in LookupTexts : Room(MaxLookups) /\ handle_text(u, text) /\ Fits(MaxLookups)
    \/ \E s \in Users, data \in LookupData : on_callback(s, data) /\ Fits(MaxLookups)

SpecLookups == InitStore /\ [][NextLookups]_vars

\* The phone book: every text and every press on the lists by one user,
\* while the spreadsheets change and are loaded again; the clock stands still
InitSearch ==
    /\ files \in FileChoices
    /\ display_rows = load_phonebook(files).display_rows
    /\ departments = load_phonebook(files).departments
    /\ phonebook = load_phonebook(files).phonebook
    /\ users = <<>>
    /\ events = <<>>
    /\ now = MaxTime
    /\ user_data = NoSearches
    /\ upserts = [u \in Users |-> <<>>]
    /\ loaded = files
    /\ menu = <<>>
    /\ watching = FALSE
    /\ broadcast = NoBroadcast
    /\ nIn = <<>>
    /\ nOut = <<>>
    /\ nOut2 = <<>>
    /\ nStage = "idle"

NextSearch ==
    \/ EditFiles
    \/ Restart
    \/ Room(MaxEvents) /\ reload_cmd(OtherUser) /\ Fits(MaxEvents)
    \/ \E text \in Texts : Room(MaxEvents) /\ handle_text(OtherUser, text) /\ Fits(MaxEvents)
    \/ \E data \in PlainData : on_callback(OtherUser, data) /\ Fits(MaxEvents)

SpecSearch == InitSearch /\ [][NextSearch]_vars

\* The loads: the spreadsheets change and are loaded again by /reload and
\* at every start, while one user presses departments and sends "-"
LoadTexts == {<<45>>}
LoadData == {<<"dept", i>> : i \in 0..2}

NextLoads ==
    \/ EditFiles
    \/ Restart
    \/ Room(MaxEvents) /\ reload_cmd(OtherUser) /\ Fits(MaxEvents)
    \/ \E text \in LoadTexts : Room(MaxEvents) /\ handle_text(OtherUser, text) /\ Fits(MaxEvents)
    \/ \E data \in LoadData : on_callback(OtherUser, data) /\ Fits(MaxEvents)

SpecLoads == InitSearch /\ [][NextLoads]_vars

\* The log: both users search (no match, one match, several) and send
\* /start in turn, and the process is restarted; the clock stands still
NextLog ==
    \/ Restart
    \/ \E u \in Users : Room(MaxLookups) /\ start(u) /\ Fits(MaxLookups)
    \/ \E u \in Users, text \in StoreTexts :
          Room(MaxLookups) /\ handle_text(u, text) /\ Fits(MaxLookups)

InitLog == InitSearch /\ files = Sheet

SpecLog == InitLog /\ [][NextLog]_vars

\* The broadcast: users arrive through /start while time passes, the admin
\* confirms a broadcast, and each send succeeds, is rate-limited or fails;
\* the event loop resumes the handler after each of its awaits
BroadcastStep ==
    \/ \E r \in SendResults : broadcast_send(r)
    \/ \E r \in SendResults : broadcast_resend(r)
    \/ broadcast_reply

NextBroadcast ==
    \/ Tick
    \/ \E u \in Users : ~Broadcasting /\ Room(MaxEvents) /\ start(u) /\ Fits(MaxEvents)
    \/ \E s \in Users : broadcast_confirm(s)
    \/ BroadcastStep

SpecBroadcast == InitStore /\ [][NextBroadcast]_vars /\ WF_vars(BroadcastStep)

\* The menus: one user opens the list, searches and presses while the
\* spreadsheets change and are loaded again, and one of the inline menus the
\* bot has sent stays on the user's screen
MenuTexts == {BTN_LIST, <<1602>>, <<32, 97>>}
MenuData == {<<"dept", i>> : i \in 0..2} \cup {<<"allp", 0>>, <<"srchp", 0>>}

InitMenus ==
    /\ files \in FileChoices
    /\ display_rows = load_phonebook(files).display_rows
    /\ departments = load_phonebook(files).departments
    /\ phonebook = load_phonebook(files).phonebook
    /\ users = <<>>
    /\ events = <<>>
    /\ now = MaxTime
    /\ user_data = NoSearches
    /\ upserts = [u \in Users |-> <<>>]
    /\ loaded = files
    /\ menu = <<>>
    /\ watching = TRUE
    /\ broadcast = NoBroadcast
    /\ nIn = <<>>
    /\ nOut = <<>>
    /\ nOut2 = <<>>
    /\ nStage = "idle"

NextMenus ==
    \/ EditFiles
    \/ Restart
    \/ Room(MaxEvents) /\ reload_cmd(OtherUser) /\ Fits(MaxEvents)
    \/ \E text \in MenuTexts : Room(MaxEvents) /\ handle_text(OtherUser, text) /\ Fits(MaxEvents)
    \/ \E data \in MenuData : on_callback(OtherUser, data) /\ Fits(MaxEvents)

SpecMenus == InitMenus /\ [][NextMenus]_vars

\* The pages: one user searches "b", "c" and "a" in the large spreadsheet,
\* opens the list, turns the pages of the search menus and presses
\* departments, and one of the menus sent stays on the user's screen
PagingTexts == {<<98>>, <<99>>, <<32, 97>>, BTN_LIST}
PagingData == {<<"srchp", p>> : p \in 0..1} \cup {<<"dept", 0>>, <<"dept", PAGE_SIZE_SRCH>>}

InitPaging ==
    /\ files = BigSheet
    /\ display_rows = load_phonebook(files).display_rows
    /\ departments = load_phonebook(files).departments
    /\ phonebook = load_phonebook(files).phonebook
    /\ users = <<>>
    /\ events = <<>>
    /\ now = MaxTime
    /\ user_data = NoSearches
    /\ upserts = [u \in Users |-> <<>>]
    /\ loaded = files
    /\ menu = <<>>
    /\ watching = TRUE
    /\ broadcast = NoBroadcast
    /\ nIn = <<>>
    /\ nOut = <<>>
    /\ nOut2 = <<>>
    /\ nStage = "idle"

NextPaging ==
    \/ \E text \in PagingTexts : Room(MaxEvents) /\ handle_text(OtherUser, text) /\ Fits(MaxEvents)
    \/ \E data \in PagingData : on_callback(OtherUser, data) /\ Fits(MaxEvents)

SpecPaging == InitPaging /\ [][NextPaging]_vars

\* normalize_arabic applied to every string of the alphabet up to MaxLen
InitNormalizer ==
    /\ InitNorm
    /\ files = <<>>
    /\ display_rows = <<>>
    /\ departments = <<>>
    /\ phonebook = EmptyDict
    /\ users = <<>>
    /\ events = <<>>
    /\ now = 0
    /\ user_data = NoSearches
    /\ upserts = [u \in Users |-> <<>>]
    /\ loaded = files
    /\ menu = <<>>
    /\ watching = FALSE
    /\ broadcast = NoBroadcast

NextNormalizer ==
    \/ NormalizeOnce /\ UNCHANGED botVars
    \/ NormalizeTwice /\ UNCHANGED botVars

SpecNormalizer == InitNormalizer /\ [][NextNormalizer]_vars

-----------------------------------------------------------------------------
(* Properties *)

\* the indices, from 0, of the departments whose normalised name holds qn
\* as a run of consecutive characters
Containing(qn) ==
    {j \in 0..(Len(departments) - 1) :
        LET dn == normalize_arabic(departments[j + 1])
        IN  \E k \in 1..(Len(dn) - Len(qn) + 1) :
                \A m \in 1..Len(qn) : dn[k + m - 1] = qn[m]}

StrictlyIncreasing(r) == \A i \in 1..(Len(r) - 1) : r[i] < r[i + 1]

Range(r) == {r[i] : i \in 1..Len(r)}

\* C1: for a query whose normalised form is not empty, search_indices
\* returns exactly the indices of the departments whose normalised name
\* contains the normalised query, in strictly increasing order.
C1_SearchIndicesExact ==
    \A q \in Queries :
        normalize_arabic(q) # <<>> =>
            /\ StrictlyIncreasing(search_indices(q))
            /\ Range(search_indices(q)) = Containing(normalize_arabic(q))

\* a search has been answered that matched two departments in the middle
\* and at the start of their names, and left a third out
C1_Witness ==
    /\ \E i \in 1..Len(events) :
          /\ events[i].event_type = "search_text"
          /\ events[i].query = <<1602>>
          /\ events[i].extra = <<"matches", 2>>
    /\ search_indices(<<1602>>) = <<1, 2>>
    /\ Len(departments) = 3

\* C2: normalising a normalised string changes nothing.
C2_Idempotent == nStage = "twice" => nOut2 = nOut

\* the buttons of a menu's rows, in reading order
RECURSIVE Flatten(_)
Flatten(rows) == IF rows = <<>> THEN <<>> ELSE Head(rows) \o Flatten(Tail(rows))

\* C3: a free-text message gets exactly one reply: the not-found text for
\* no match, the name and phone of the department for one match and no
\* inline menu, an inline menu of all matches in order for two or more.
C3_OneReplyByMatchCount ==
    \A u \in Users, q \in Queries :
        LET qn == normalize_arabic(Strip(q))
            M == IF qn = <<>> THEN {} ELSE Containing(qn)
            R == handle_text_replies(u, q)
        IN  /\ Cardinality(R) = 1
            /\ \A rs \in R :
                  /\ Len(rs) = 1
                  /\ Cardinality(M) = 0 => rs[1].kind = "not_found"
                  /\ Cardinality(M) = 1 =>
                        /\ rs[1].kind = "answer"
                        /\ rs[1].markup = "MAIN_KB"
                        /\ \E j \in M :
                              /\ rs[1].name = display_rows[j + 1].dept
                              /\ rs[1].phone = ShowPhone(display_rows[j + 1].phone)
                  /\ Cardinality(M) >= 2 =>
                        /\ rs[1].kind = "menu"
                        /\ rs[1].markup.error = ""
                        /\ LET b == Flatten(rs[1].markup.rows)
                           IN  /\ Len(b) = Cardinality(M)
                               /\ StrictlyIncreasing([i \in 1..Len(b) |-> b[i].data[2]])
                               /\ \A i \in 1..Len(b) :
                                     /\ b[i].data[1] = "dept"
                                     /\ b[i].data[2] \in M
                                     /\ b[i].text = departments[b[i].data[2] + 1]

\* a search with one match has been answered with a phone that is on file
C3_Witness ==
    /\ \E i \in 1..Len(events) :
          /\ events[i].event_type = "search_hit"
          /\ events[i].dept = N_AQ
          /\ handle_text_replies(OtherUser, events[i].query)
                = {<<[kind |-> "answer", name |-> N_AQ, phone |-> "222", markup |-> "MAIN_KB"]>>}

\* C4: every row of events has a users row of the same user_id whose
\* first_seen is not later than the event's ts, also after a handler died
\* between its upsert and its insert.
C4_EventHasEarlierUser ==
    \A i \in DOMAIN events :
        \E j \in DOMAIN users :
            /\ users[j].user_id = events[i].user_id
            /\ users[j].first_seen <= events[i].ts

\* a handler of one user died after its upsert, leaving a user without
\* events, and the other user has an event later than the first visit
C4_Witness ==
    /\ \E j \in DOMAIN users : \A i \in DOMAIN events : events[i].user_id # users[j].user_id
    /\ \E i \in DOMAIN events, j \in DOMAIN users :
          /\ users[j].user_id = events[i].user_id
          /\ users[j].first_seen < events[i].ts

\* C5: after any number of upsert_user calls for a user id, among calls for
\* other users, users holds exactly one row for the id, with first_seen the
\* time of the first call and last_seen the time of the latest.
C5_OneRowFirstAndLatest ==
    \A u \in Users :
        LET rows == {j \in DOMAIN users : users[j].user_id = u}
        IN  IF upserts[u] = <<>>
            THEN rows = {}
            ELSE /\ Cardinality(rows) = 1
                 /\ \A j \in rows :
                       /\ users[j].first_seen = upserts[u][1]
                       /\ users[j].last_seen = upserts[u][2]

\* one user was upserted, then the other, then the first again, each at a
\* later second
C5_Witness ==
    /\ upserts[OtherUser] # <<>>
    /\ upserts[ADMIN_ID] # <<>>
    /\ upserts[OtherUser][1] < upserts[ADMIN_ID][1]
    /\ upserts[ADMIN_ID][1] <= upserts[ADMIN_ID][2]
    /\ upserts[ADMIN_ID][2] <= upserts[OtherUser][2]
    /\ upserts[OtherUser][1] < upserts[OtherUser][2]

\* the windows the program forms begin on a whole second (midnight) and may
\* end at any instant
WindowStarts == {t \in 0..MaxTime : iso(t) = t}

\* C6: every windowed count (new users, active users, searches, not-found)
\* over [start, end] counts a row exactly when start <= its timestamp <= end,
\* both in count_* and in the windowed part of stats_summary.
C6_WindowInclusive ==
    /\ \A s \in WindowStarts, e \in 0..MaxTime :
          /\ count_new_users(s, e)
                = Cardinality({j \in DOMAIN users :
                                  s <= users[j].first_seen /\ users[j].first_seen <= e})
          /\ count_active_users(s, e)
                = Cardinality({events[i].user_id :
                                  i \in {k \in DOMAIN events : s <= events[k].ts /\ events[k].ts <= e}})
          /\ count_searches(s, e)
                = Cardinality({i \in DOMAIN events :
                                  /\ s <= events[i].ts /\ events[i].ts <= e
                                  /\ events[i].event_type \in {"search_text", "dept_select", "search_hit"}})
          /\ count_not_found(s, e)
                = Cardinality({i \in DOMAIN events :
                                  /\ s <= events[i].ts /\ events[i].ts <= e
                                  /\ events[i].event_type = "not_found"})
    /\ \A kind \in {"today", "week", "month"} :
          LET pb == period_bounds(kind)
              st == stats_summary(kind)
              In(ts) == pb.start <= ts /\ ts <= pb.end
          IN  /\ st.new_users = Cardinality({j \in DOMAIN users : In(users[j].first_seen)})
              /\ st.active_users
                    = Cardinality({events[i].user_id : i \in {k \in DOMAIN events : In(events[k].ts)}})
              /\ st.total_search
                    = Cardinality({i \in DOMAIN events :
                                      /\ In(events[i].ts)
                                      /\ events[i].event_type
                                            \in {"search_text", "dept_select", "search_hit"}})
              /\ st.not_found
                    = Cardinality({i \in DOMAIN events :
                                      In(events[i].ts) /\ events[i].event_type = "not_found"})

\* at midnight, a search of the day before and a search stamped with this
\* very instant: today's window begins and ends on the second one
C6_Witness ==
    /\ now > 0
    /\ period_bounds("today").start = now
    /\ \E i, k \in DOMAIN events :
          /\ events[i].ts < now
          /\ events[i].event_type = "search_text"
          /\ events[k].ts = now
          /\ events[k].event_type = "dept_select"
    /\ stats_summary("today").total_search = 1
    /\ count_searches(0, now - 1) = 1

\* C7: a user who is not ADMIN_ID gets the not-authorised reply, and nothing
\* else, to /admin and to every callback prefixed stats:, adm:, export:,
\* broadcast: or admin:; such a callback writes nothing.
C7_NonAdminOnlyRefused ==
    \A u \in Users \ {ADMIN_ID} :
        /\ admin_cmd_replies(u) = {<<[kind |-> "unauthorised", markup |-> "MAIN_KB"]>>}
        /\ \A data \in AdminData :
              /\ on_callback_replies(u, data)
                    = {<<[kind |-> "unauthorised", markup |-> "MAIN_KB"]>>}
              /\ on_callback_ops(u, data) = <<>>

\* the other user has sent /admin while the store holds what the
\* administrator is shown: statistics, a file, a broadcast to the users
C7_Witness ==
    /\ \E i \in DOMAIN events :
          events[i].event_type = "admin_open" /\ events[i].user_id = OtherUser
    /\ \E r \in on_callback_replies(ADMIN_ID, <<"stats", "all">>) :
          r[1].kind = "stats" /\ r[1].text.total_users > 0
    /\ \E r \in on_callback_replies(ADMIN_ID, <<"broadcast", "confirm">>) :
          r[1].kind = "broadcast_done" /\ r[1].ok > 0
    /\ \E r \in on_callback_replies(ADMIN_ID, <<"export", "csv", "today">>) :
          r[1].kind = "document"

\* C8: every step leaves the events table as it was or appends rows after
\* the rows it held.
C8_EventsAppendOnly ==
    [][/\ Len(events') >= Len(events)
       /\ SubSeq(events', 1, Len(events)) = events]_vars

\* the table has grown twice
C8_Witness ==
    /\ Len(events) >= 2
    /\ events[1].ts < events[2].ts

\* the count a result of the aggregation gives for department d
CountIn(r, d) ==
    IF \E i \in DOMAIN r : r[i].dept = d
    THEN (CHOOSE g \in Range(r) : g.dept = d).c
    ELSE 0

Lookups(d) ==
    Cardinality({i \in DOMAIN events :
                    events[i].event_type \in {"dept_select", "search_hit"} /\ events[i].dept = d})

\* C10: get_top_depts(N) returns at most N pairs, each a non-empty
\* department with the number of its dept_select and search_hit rows, in
\* non-increasing order of count, and no department it leaves out has a
\* larger count than one it returns.
C10_TopDepts ==
    \A N \in 0..MaxLimit :
        \A r \in get_top_depts(N) :
            /\ Len(r) <= N
            /\ \A i \in DOMAIN r : r[i].dept # <<>> /\ r[i].c = Lookups(r[i].dept)
            /\ \A i, j \in DOMAIN r : i < j => r[i].c >= r[j].c /\ r[i].dept # r[j].dept
            /\ \A k \in DOMAIN events :
                  (/\ events[k].event_type \in {"dept_select", "search_hit"}
                   /\ events[k].dept # <<>>
                   /\ \A i \in DOMAIN r : r[i].dept # events[k].dept) =>
                      \A i \in DOMAIN r : Lookups(events[k].dept) <= r[i].c

\* two departments with counts 2 and 1: the top one leaves the other out
C10_Witness ==
    /\ \E r \in get_top_depts(2) : Len(r) = 2 /\ r[1].c = 2 /\ r[2].c = 1
    /\ \E r \in get_top_depts(1) : Len(r) = 1 /\ r[1].c = 2

\* the rows of events that are lookups of user u
UserLookups(u) ==
    {i \in DOMAIN events :
        events[i].user_id = u
        /\ events[i].event_type \in {"search_text", "dept_select", "search_hit"}}

\* the greatest of a non-empty set of timestamps
Latest(T) == CHOOSE t \in T : \A s \in T : s <= t

\* C11: every line of the top-users report gives, for its user, the number
\* of that user's search_text, dept_select and search_hit rows, and the
\* timestamp it shows is the last timestamp among exactly those rows.
C11_TopUsersTimes ==
    \A detailed \in BOOLEAN :
        \A r \in TopUsersOf(events, 15) :
            \A i \in DOMAIN r :
                LET line == TopUserLine(r[i], detailed)
                    mine == UserLookups(line.user_id)
                IN  /\ line.c = Cardinality(mine)
                    /\ line.last_seen = fmt_ts(Latest({events[k].ts : k \in mine}))

\* the users that have a row in events, and the last timestamp of each
EventUsers == {events[i].user_id : i \in DOMAIN events}

LastEventOf(u) == Latest({events[i].ts : i \in {k \in DOMAIN events : events[k].user_id = u}})

\* C12: the recent-users report of size N lists the N users with the greatest
\* per-user maximum event timestamp (all of them when fewer have events), in
\* descending order of that maximum, and the last-use time of each line is
\* that maximum.
C12_RecentByLastEvent ==
    \A N \in 0..MaxLimit :
        \A r \in get_recent_users(N) :
            /\ Len(r) = Min(N, Cardinality(EventUsers))
            /\ \A i \in DOMAIN r :
                  /\ r[i].user_id \in EventUsers
                  /\ r[i].last_seen = fmt_ts(LastEventOf(r[i].user_id))
            /\ \A i, j \in DOMAIN r :
                  i < j => /\ r[i].user_id # r[j].user_id
                           /\ LastEventOf(r[i].user_id) >= LastEventOf(r[j].user_id)
            /\ \A u \in EventUsers :
                  (\A i \in DOMAIN r : r[i].user_id # u) =>
                      \A i \in DOMAIN r : LastEventOf(u) <= LastEventOf(r[i].user_id)

\* C13: while the events table and the users table are both empty, every
\* aggregation has a result: each count is 0, the top-departments, top-users
\* and recent-users results are the empty list and their reports the no-data
\* text, and the last activity is the dash.
C13_EmptyTables ==
    (events = <<>> /\ users = <<>>) =>
        /\ get_total_users = 0
        /\ count_active_users_all = 0
        /\ count_searches_all = 0
        /\ count_not_found_all = 0
        /\ \A s, e \in 0..MaxTime :
              /\ count_new_users(s, e) = 0
              /\ count_active_users(s, e) = 0
              /\ count_searches(s, e) = 0
              /\ count_not_found(s, e) = 0
        /\ \A kind \in {"today", "week", "month", "all"} :
              LET t == stats_summary(kind)
              IN  /\ t.total_users = 0
                  /\ t.active_users = 0
                  /\ t.total_search = 0
                  /\ t.total_text_search = 0
                  /\ t.total_button_search = 0
                  /\ t.total_hit_search = 0
                  /\ t.not_found = 0
                  /\ t.last_activity = Dash
                  /\ kind # "all" => t.new_users = 0
        /\ \A N \in 0..MaxLimit :
              /\ get_top_depts(N) = {<<>>}
              /\ get_top_users(N) = {<<>>}
              /\ get_recent_users(N) = {<<>>}
        /\ top10_departments_alltime = {<<"no_data">>}
        /\ top15_users_alltime_detailed = {<<"no_data">>}
        /\ recent25_users = {<<"no_data">>}
        /\ get_last_activity_ts = Dash

\* time has passed, nobody has used the bot, and the administrator's press
\* on the top-departments button of an admin menu is answered with the
\* no-data text
C13_Witness ==
    /\ events = <<>>
    /\ users = <<>>
    /\ now > 0
    /\ \A r \in on_callback_replies(ADMIN_ID, <<"adm", "top10_depts">>) :
          Len(r) = 1 /\ r[1].text = <<"no_data">>
    /\ \A r \in on_callback_replies(ADMIN_ID, <<"stats", "today">>) :
          r[1].text.total_search = 0 /\ r[1].text.last_activity = Dash

\* the texts of up to two characters that normalize_arabic empties: blanks,
\* punctuation, tatweel, diacritics, formatting marks and the empty text
EmptyQueries == {q \in StringsUpTo(2) : normalize_arabic(q) = <<>>}

\* C14: for a query that normalises to the empty string, search_indices
\* returns the empty list whatever departments are loaded, and handle_text
\* records the search with no match and answers not-found.
C14_EmptyQuery ==
    \A q \in EmptyQueries :
        /\ search_indices(q) = <<>>
        /\ handle_text_replies(OtherUser, q) = {<<[kind |-> "not_found", markup |-> "MAIN_KB"]>>}
        /\ LET ops == handle_text_ops(OtherUser, q)
           IN  /\ Len(ops) = 3
               /\ ops[2].event_type = "search_text" /\ ops[2].extra = <<"matches", 0>>
               /\ ops[3].event_type = "not_found"

\* "-" has been sent while departments are loaded and was answered not-found
C14_Witness ==
    /\ departments # <<>>
    /\ <<45>> \in EmptyQueries
    /\ \E i \in DOMAIN events :
          /\ events[i].event_type = "not_found"
          /\ events[i].query = <<45>>
          /\ loaded = files

\* C15: in the result of search_indices, every department whose normalised
\* name equals the normalised query comes before every department that
\* matches without being equal to it.
C15_ExactFirst ==
    \A q \in PagingTexts :
        LET qn == normalize_arabic(q)
            m == search_indices(q)
        IN  \A i, j \in DOMAIN m :
                (/\ normalize_arabic(departments[m[j] + 1]) = qn
                 /\ normalize_arabic(departments[m[i] + 1]) # qn) => j < i

\* the words of a normalised text, which holds single blanks only
RECURSIVE Tokens(_)
Tokens(s) ==
    IF s = <<>> THEN {}
    ELSE IF \E k \in DOMAIN s : s[k] = 32
    THEN LET k == CHOOSE p \in DOMAIN s : s[p] = 32 /\ \A r \in 1..(p - 1) : s[r] # 32
         IN  {SubSeq(s, 1, k - 1)} \cup Tokens(SubSeq(s, k + 1, Len(s)))
    ELSE {s}

\* queries of several words: alef qaf + "a"; "a" + qaf ta-marbuta
TokenQueries == {<<1575, 1602, 32, 97>>, <<97, 32, 1602, 1577>>}

\* C16: for a query of several words, every department whose normalised name
\* contains a word of the query of two characters or more is in the result of
\* search_indices, also when the whole query is not within the name.
C16_PartialWord ==
    \A q \in TokenQueries :
        \A t \in Tokens(normalize_arabic(q)) :
            Len(t) >= 2 => Containing(t) \subseteq Range(search_indices(q))

\* the places <<file, row>> of the rows load_phonebook last kept: those with
\* a name that is not blank; Later is the order in which it read them
LoadedPlaces ==
    {p \in UNION {{<<f, i>> : i \in DOMAIN loaded[f]} : f \in DOMAIN loaded} :
        Strip(loaded[p[1]][p[2]].dept) # <<>>}

Later(p, q) == p[1] < q[1] \/ (p[1] = q[1] /\ p[2] < q[2])

NameAt(p) == Strip(loaded[p[1]][p[2]].dept)

\* the phone of the row read last among those whose name has the key of name
LastLoadedPhone(name) ==
    LET same == {p \in LoadedPlaces : normalize_arabic(NameAt(p)) = normalize_arabic(name)}
        last == CHOOSE p \in same : \A q \in same : q = p \/ Later(q, p)
    IN  loaded[last[1]][last[2]].phone

\* C17: when two rows of the loaded spreadsheets have the same normalised
\* name, both names are in departments, and a press on the button of either
\* name, or a search that finds only it, is answered with the phone of the
\* row that was read last.
C17_LastLoadedWins ==
    \A p, q \in LoadedPlaces :
        (Later(p, q) /\ normalize_arabic(NameAt(p)) = normalize_arabic(NameAt(q))) =>
            /\ \E i, j \in DOMAIN departments :
                  i # j /\ departments[i] = NameAt(p) /\ departments[j] = NameAt(q)
            /\ \A idx \in 0..(Len(departments) - 1) :
                  departments[idx + 1] \in {NameAt(p), NameAt(q)} =>
                      LET shown == ShowPhone(LastLoadedPhone(NameAt(q)))
                      IN  on_callback_replies(OtherUser, <<"dept", idx>>)
                             = {<<[kind |-> "alert", name |-> departments[idx + 1], phone |-> shown],
                                  [kind |-> "dept", name |-> departments[idx + 1], phone |-> shown]>>}
            /\ \A text \in Queries :
                  (/\ Len(search_indices(text)) = 1
                   /\ departments[search_indices(text)[1] + 1] \in {NameAt(p), NameAt(q)}) =>
                      \A r \in handle_text_replies(OtherUser, text) :
                          r[1].phone = ShowPhone(LastLoadedPhone(NameAt(q)))

\* the two files with colliding names are loaded and both names have been
\* pressed; the name of the first file shows the phone of the second
C17_Witness ==
    /\ loaded = Sheets
    /\ Len(events) = 2
    /\ events[1].event_type = "dept_select" /\ events[1].dept = N_HAQ
    /\ events[2].event_type = "dept_select" /\ events[2].dept = N_AQ
    /\ \A r \in on_callback_replies(OtherUser, <<"dept", 1>>) :
          r[2].name = N_AQ /\ r[2].phone = "222"

\* C18: after every load_phonebook call, departments holds exactly the
\* non-blank names read in this call, each as often as it was read, in
\* non-decreasing order, display_rows has the same names, and the keys of
\* phonebook are the normalised names of that list: nothing of an earlier
\* load is left.
C18_LoadReplaces ==
    /\ Len(departments) = Cardinality(LoadedPlaces)
    /\ \A p \in LoadedPlaces :
          Cardinality({i \in DOMAIN departments : departments[i] = NameAt(p)})
             = Cardinality({q \in LoadedPlaces : NameAt(q) = NameAt(p)})
    /\ \A i, j \in DOMAIN departments : i < j => ~StrLess(departments[j], departments[i])
    /\ Len(display_rows) = Len(departments)
    /\ \A i \in DOMAIN departments : display_rows[i].dept = departments[i]
    /\ DOMAIN phonebook = {normalize_arabic(departments[i]) : i \in DOMAIN departments}

\* a department of the one-file spreadsheet was pressed, the files were
\* replaced by the two-file spreadsheet and /reload has loaded them
C18_Witness ==
    /\ Len(events) = 2
    /\ events[1].event_type = "dept_select" /\ events[1].dept = N_QT
    /\ events[2].event_type = "reload"
    /\ loaded = Sheets
    /\ departments = <<N_HAQ, N_AQ>>
    /\ normalize_arabic(N_QT) \notin DOMAIN phonebook

\* the department buttons of a menu
DeptButtons(m) == {b \in Range(Flatten(m.markup.rows)) : b.data[1] = "dept"}

\* C19: whatever searches, list openings, /reload and presses came in
\* between, a press on a department button of a menu the user has on screen
\* is answered with, and logged as dept_select of, the department whose name
\* is the label the button was built with.
C19_ButtonKeepsItsDepartment ==
    \A k \in DOMAIN menu :
        \A b \in DeptButtons(menu[k]) :
            /\ \A r \in on_callback_replies(menu[k].to, b.data) :
                  /\ Len(r) = 2
                  /\ r[1].kind = "alert" /\ r[1].name = b.text
                  /\ r[2].kind = "dept" /\ r[2].name = b.text
            /\ on_callback_ops(menu[k].to, b.data)
                  = <<Upsert(menu[k].to), Log("dept_select", menu[k].to, b.text, <<>>, <<>>)>>

\* the indices a page of a search menu shows: page pg of the list matches
PageOf(matches, pg) ==
    SubSeq(matches, pg * PAGE_SIZE_SRCH + 1, Min((pg + 1) * PAGE_SIZE_SRCH, Len(matches)))

\* C20: while the process that sent it keeps the user's searches, a press on
\* the previous or next button of a search menu the user has on screen is
\* answered with that page of the list of matches the menu was built from,
\* whatever the same user searched in between.
C20_PageOfSameSearch ==
    \A k \in DOMAIN menu :
        \A b \in Range(menu[k].markup.ctrl) :
            (b.data[1] = "srchp" /\ user_data[menu[k].to] # <<>>) =>
                \A r \in on_callback_replies(menu[k].to, b.data) :
                    /\ Len(r) = 1
                    /\ r[1].kind = "edit_menu"
                    /\ LET shown == Flatten(r[1].markup.rows)
                           page == PageOf(menu[k].matches, b.data[2])
                       IN  /\ Len(shown) = Len(page)
                           /\ \A i \in DOMAIN shown : shown[i].data = <<"dept", page[i]>>

\* row k of events is followed by a row of the given type
FollowedBy(k, type) == k < Len(events) /\ events[k + 1].event_type = type

\* C21 as stated: every not_found and every search_hit row comes right after
\* a search_text row of the same user with the same query, and a search_text
\* row is followed by not_found exactly when its search had no match and by
\* search_hit exactly when it had one.
C21_SearchThenResult ==
    \A k \in DOMAIN events :
        /\ events[k].event_type \in {"not_found", "search_hit"} =>
              /\ k > 1
              /\ events[k - 1].event_type = "search_text"
              /\ events[k - 1].user_id = events[k].user_id
              /\ events[k - 1].query = events[k].query
        /\ events[k].event_type = "search_text" =>
              /\ FollowedBy(k, "not_found") <=> events[k].extra = <<"matches", 0>>
              /\ FollowedBy(k, "search_hit") <=> events[k].extra = <<"matches", 1>>

\* every not_found and every search_hit row comes right after a search_text
\* row of the same user with the same query, whose search had no match for
\* not_found and one match for search_hit
ResultAfterItsSearch ==
    \A k \in DOMAIN events :
        events[k].event_type \in {"not_found", "search_hit"} =>
            /\ k > 1
            /\ events[k - 1].event_type = "search_text"
            /\ events[k - 1].user_id = events[k].user_id
            /\ events[k - 1].query = events[k].query
            /\ events[k - 1].extra =
                  <<"matches", IF events[k].event_type = "not_found" THEN 0 ELSE 1>>

\* a step that leaves a search_text row of a search with no match or one
\* match as the last row of events is one after which the process has
\* started again: its memory is what load_phonebook reads and no search is
\* kept
SearchLeftOpenOnlyByRestart ==
    (/\ Len(events') > Len(events)
     /\ events'[Len(events')].event_type = "search_text"
     /\ events'[Len(events')].extra \in {<<"matches", 0>>, <<"matches", 1>>}) =>
        /\ user_data' = NoSearches
        /\ loaded' = files'
        /\ departments' = load_phonebook(files').departments

\* C21, amended: every not_found and every search_hit row comes right after
\* the search_text row of the same user and query, with 0 matches for
\* not_found and 1 for search_hit (so a search with 2 or more is followed by
\* neither), and handle_text leaves a search with 0 or 1 matches without its
\* result row only when the process stops between the two inserts.
C21_ResultFollowsSearch ==
    /\ []ResultAfterItsSearch
    /\ [][SearchLeftOpenOnlyByRestart]_vars

\* one user's search with several matches, then the other user's search
\* with no match and its not_found row
C21_Witness ==
    /\ Len(events) = 3
    /\ events[1].event_type = "search_text" /\ events[1].extra = <<"matches", 2>>
    /\ events[2].event_type = "search_text" /\ events[2].extra = <<"matches", 0>>
    /\ events[3].event_type = "not_found"
    /\ events[1].user_id # events[2].user_id
    /\ user_data # NoSearches

\* the tries of the broadcast so far that went to uid
TriesTo(uid) == SelectSeq(broadcast.tries, LAMBDA t : t.to = uid)

\* the place of uid in the user ids the broadcast read
PlaceOf(uid) == CHOOSE i \in DOMAIN broadcast.user_ids : broadcast.user_ids[i] = uid

BroadcastInOrder ==
    /\ \A i, j \in DOMAIN broadcast.user_ids :
           broadcast.user_ids[i] = broadcast.user_ids[j] => i = j
    /\ Broadcasting =>
           broadcast.user_ids = [i \in 1..Len(users) |-> users[i].user_id]
    /\ \A k \in DOMAIN broadcast.tries :
           /\ broadcast.tries[k].to \in Range(broadcast.user_ids)
           /\ \A j \in 1..(k - 1) :
                  PlaceOf(broadcast.tries[j].to) <= PlaceOf(broadcast.tries[k].to)
    /\ \A uid \in Range(broadcast.user_ids) :
           /\ Len(TriesTo(uid)) <= 2
           /\ Len(TriesTo(uid)) = 2 => TriesTo(uid)[1].result = "RetryAfter"
    /\ broadcast.pc = "done" =>
           /\ \A uid \in Range(broadcast.user_ids) : Len(TriesTo(uid)) >= 1
           /\ broadcast.ok + broadcast.fail = Len(broadcast.user_ids)
           /\ broadcast.reply = <<[ok |-> broadcast.ok, fail |-> broadcast.fail]>>

\* C22: a confirmed broadcast visits the user ids it read from the users
\* table in order, each exactly once, with at most two sends to each, the
\* second only after a rate-limit error on the first; it always reaches its
\* end, and there ok + fail is the number of user ids read
C22_BroadcastCompletes ==
    /\ []BroadcastInOrder
    /\ (Broadcasting ~> broadcast.pc = "done")

\* a finished broadcast to two users: one reached at the second send, one not reached
C22_Witness ==
    /\ broadcast.pc = "done"
    /\ Len(broadcast.user_ids) = 2
    /\ Len(broadcast.tries) = 3
    /\ broadcast.tries[1].result = "RetryAfter"
    /\ broadcast.tries[2].result = "ok"
    /\ broadcast.tries[3].result = "error"
    /\ broadcast.ok = 1
    /\ broadcast.fail = 1

\* the indices of the department buttons of page p of the menu, in order
ButtonsOfPage(indices, p, page_size) ==
    LET buttons == Flatten(build_grid(indices, p, page_size, GRID_COLS, "srchp").rows)
    IN  [k \in 1..Len(buttons) |-> buttons[k].data[2]]

\* pages p to last of the menu, each as the indices of its department buttons
RECURSIVE PagesFrom(_, _, _, _)
PagesFrom(indices, p, last, page_size) ==
    IF p > last THEN <<>>
    ELSE <<ButtonsOfPage(indices, p, page_size)>> \o PagesFrom(indices, p + 1, last, page_size)

\* the index lists the program builds over the loaded departments: every
\* beginning of the full list, and the matches each user's last search left
IndexLists ==
    {[i \in 1..n |-> i - 1] : n \in 0..Len(departments)}
    \cup {user_data[u] : u \in Users}

\* the page sizes: the two the program uses, and the small ones
PageSizes == {PAGE_SIZE_ALL, PAGE_SIZE_SRCH} \cup 1..MaxPageSize

\* C23: for every index list, page size and requested page, negative and
\* too large ones included, build_grid shows page max(0, min(page, pages-1))
\* with at most page_size department buttons, and the department buttons
\* of pages 0 to pages-1 in order are the index list, each index on exactly
\* one page.
C23_PagesCoverTheList ==
    \A indices \in IndexLists, page_size \in PageSizes :
        LET pages == build_grid(indices, 0, page_size, GRID_COLS, "srchp").pages
        IN  /\ pages >= 1
            /\ \A page \in (0 - 2)..(pages + 1) :
                   LET g == build_grid(indices, page, page_size, GRID_COLS, "srchp")
                   IN  /\ g.error = ""
                       /\ g.pages = pages
                       /\ g.page \in 0..(pages - 1)
                       /\ (page \in 0..(pages - 1)) => g.page = page
                       /\ page < 0 => g.page = 0
                       /\ page > pages - 1 => g.page = pages - 1
                       /\ Len(Flatten(g.rows)) <= page_size
            /\ LET shown == PagesFrom(indices, 0, pages - 1, page_size)
               IN  /\ Len(shown) = pages
                   /\ Flatten(shown) = indices
                   /\ \A idx \in Range(indices) :
                          Cardinality({p \in DOMAIN shown : idx \in Range(shown[p])}) = 1

\* the second and last page of a search with one match more than a page
\* holds is on the user's screen
C23_Witness ==
    /\ Len(menu) = 1
    /\ Len(menu[1].matches) = PAGE_SIZE_SRCH + 1
    /\ menu[1].markup.pages = 2
    /\ menu[1].markup.page = 1
    /\ Len(Flatten(menu[1].markup.rows)) = 1
    /\ user_data[OtherUser] = menu[1].matches

====
